---- MODULE Spec2Model ----
(***************************************************************************)
(* Model of gallery.js: the PreloadManager cache, the preview overlay      *)
(* created by showPreview, showProjectImages, initializeProjectGallery and *)
(* the browser events (load / error, keydown, click, timers) that drive    *)
(* them.  One action is one event-loop task: the handler the browser runs  *)
(* together with the promise reactions (microtasks) it triggers.           *)
(***************************************************************************)
EXTENDS Integers, Sequences, FiniteSets, TLC

VARIABLES
    archProjectImages, \* the gallery list (read-only)
    ready,             \* DOMContentLoaded has been delivered
    cache,             \* PreloadManager.cache: source -> handle
    calls,             \* every PreloadManager.preload call, in call order
    batches,           \* every PreloadManager.preloadAll call, in call order
    overlays,          \* every overlay node showPreview created, in creation order
    body,              \* overlay nodes attached to document.body, in document order
    listeners,         \* keydown listeners attached to document, in registration order
    timers,            \* pending setTimeout callbacks, ordered by due time
    uncaught,          \* an exception escaped a handler
    budget             \* showPreview calls the behaviour may make (read-only)

vars == <<archProjectImages, ready, cache, calls, batches, overlays, body,
          listeners, timers, uncaught, budget>>

----------------------------------------------------------------------------
(* Bounds of the model *)

NumImages == 3      \* length of the gallery list
MaxOverlays == 2    \* showPreview calls in one behaviour
MaxTimers == 4      \* pending timers a user input may add to

(* Program constants *)

VisibleCount == 5
CloseDelay == 300
ErrorDelay == 2000

----------------------------------------------------------------------------
(* Source identifiers: a name and its extension *)

Src(i) == [name |-> i, ext |-> "jpg"]

Gallery(n) == [i \in 1..n |-> Src(i)]

IsVideo(src) == src.ext = "mp4" \/ src.ext = "webm"

Range(s) == {s[i] : i \in DOMAIN s}

Min(a, b) == IF a <= b THEN a ELSE b

\* JavaScript's % (the sign follows the dividend)
JsRem(a, b) == IF a >= 0 THEN a % b ELSE 0 - ((0 - a) % b)

\* Array.prototype.indexOf, 0-based, -1 when absent
IndexOf(images, src) ==
    IF \E i \in DOMAIN images : images[i] = src
    THEN (CHOOSE i \in DOMAIN images :
              images[i] = src /\ \A j \in DOMAIN images : images[j] = src => i <= j) - 1
    ELSE -1

\* images[index] for a 0-based index is defined only inside the array
InRange(images, index) == index >= 0 /\ index < Len(images)

At(images, index) == images[index + 1]

\* images.slice(from, to) for 0-based bounds
Slice(images, from, to) ==
    [i \in 1..(Min(to, Len(images)) - Min(from, Len(images))) |-> images[from + i]]

----------------------------------------------------------------------------
(* PreloadManager *)

NoError == [kind |-> "none", src |-> Src(0)]

\* the Error that preload's onerror handlers construct
LoadError(src) == [kind |-> IF IsVideo(src) THEN "video" ELSE "image", src |-> src]

\* preload(src): a call is named by its position in calls; the element it
\* creates (its handle) carries the same number.  load says that the call
\* created an element and set its src, event which event the browser has
\* delivered to that element.  origin says who called: "visible" /
\* "remaining" (the batches of initializeProjectGallery) or "next"
\* (showProjectImages); batch and pos place the call in a preloadAll.
Call(src, status, handle, load, origin, batch, pos) ==
    [src |-> src, status |-> status, handle |-> handle, error |-> NoError,
     load |-> load, event |-> "none", origin |-> origin, batch |-> batch,
     pos |-> pos, warned |-> FALSE]

\* preload without the cache lookup
PreloadCallAlwaysLoads(cs, ch, src, origin, batch, pos) ==
    Append(cs, Call(src, "pending", 0, TRUE, origin, batch, pos))

\* preload resolving a cached source with a new element
PreloadCallNewHandle(cs, ch, src, origin, batch, pos) ==
    Append(cs,
        IF src \in DOMAIN ch
        THEN Call(src, "resolved", Len(cs) + 1, FALSE, origin, batch, pos)
        ELSE Call(src, "pending", 0, TRUE, origin, batch, pos))

\* preload joining a load of the same source that is in flight
PreloadCallDeduplicated(cs, ch, src, origin, batch, pos) ==
    Append(cs,
        IF src \in DOMAIN ch
        THEN Call(src, "resolved", ch[src], FALSE, origin, batch, pos)
        ELSE IF \E j \in DOMAIN cs : cs[j].src = src /\ cs[j].load /\ cs[j].status = "pending"
        THEN Call(src, "pending", 0, FALSE, origin, batch, pos)
        ELSE Call(src, "pending", 0, TRUE, origin, batch, pos))

PreloadCall(cs, ch, src, origin, batch, pos) ==
    Append(cs,
        IF src \in DOMAIN ch
        THEN Call(src, "resolved", ch[src], FALSE, origin, batch, pos)
        ELSE Call(src, "pending", 0, TRUE, origin, batch, pos))

\* sources.map(src => this.preload(src)), left to right
RECURSIVE MapPreload(_, _, _, _, _, _)
MapPreload(cs, ch, sources, origin, batch, pos) ==
    IF pos > Len(sources) THEN cs
    ELSE MapPreload(PreloadCall(cs, ch, sources[pos], origin, batch, pos),
                    ch, sources, origin, batch, pos + 1)

\* the entry Promise.allSettled records for a settled promise
Outcome(call) ==
    IF call.status = "resolved"
    THEN [status |-> "fulfilled", handle |-> call.handle, error |-> NoError]
    ELSE IF call.status = "rejected"
    THEN [status |-> "rejected", handle |-> 0, error |-> call.error]
    ELSE [status |-> "pending", handle |-> 0, error |-> NoError]

\* outcomes stored in the order the promises settle
RecordOutcomeInCompletionOrder(results, pos, call) ==
    LET free == CHOOSE i \in DOMAIN results :
                    /\ results[i].status = "pending"
                    /\ \A j \in DOMAIN results : results[j].status = "pending" => i <= j
    IN  [results EXCEPT ![free] = Outcome(call)]

\* Promise.allSettled stores the outcome of the promise at position pos
\* in slot pos of its result array
RecordOutcome(results, pos, call) == [results EXCEPT ![pos] = Outcome(call)]

BatchSettled(b) == \A i \in DOMAIN b.results : b.results[i].status # "pending"

\* preloadAll(sources): the calls it makes and the allSettled promise
PreloadAll(cs, ch, bs, sources, origin) ==
    LET id == Len(bs) + 1
        cs2 == MapPreload(cs, ch, sources, origin, id, 1)
        res == [i \in 1..Len(sources) |-> Outcome(cs2[Len(cs) + i])]
    IN  [calls |-> cs2,
         batches |-> Append(bs, [sources |-> sources, origin |-> origin,
                                 first |-> Len(cs) + 1, results |-> res])]

\* the .then callback of initializeProjectGallery
ThenRemaining(cs, ch, bs, images) ==
    LET remainingImages == Slice(images, VisibleCount, Len(images))
    IN  IF Len(remainingImages) > 0
        THEN PreloadAll(cs, ch, bs, remainingImages, "remaining")
        ELSE [calls |-> cs, batches |-> bs]

\* initializeProjectGallery starting the second batch without waiting
InitializeWithoutWaiting(cs, ch, bs, images) ==
    LET visibleImages == Slice(images, 0, VisibleCount)
        p == PreloadAll(cs, ch, bs, visibleImages, "visible")
    IN  ThenRemaining(p.calls, ch, p.batches, images)

\* initializeProjectGallery(images)
InitializeProjectGallery(cs, ch, bs, images) ==
    LET visibleImages == Slice(images, 0, VisibleCount)
        p == PreloadAll(cs, ch, bs, visibleImages, "visible")
    IN  IF BatchSettled(p.batches[Len(p.batches)])
        THEN ThenRemaining(p.calls, ch, p.batches, images)
        ELSE p

\* the promise reactions that run when call k settles: the .catch of
\* showProjectImages, the slot of Promise.allSettled, and, when that was
\* the last pending promise of the visible batch, the .then callback
React(cs, ch, bs, k, images) ==
    LET c == cs[k]
        cs2 == IF c.origin = "next" /\ c.status = "rejected"
               THEN [cs EXCEPT ![k].warned = TRUE] ELSE cs
    IN  IF c.batch = 0 THEN [calls |-> cs2, batches |-> bs]
        ELSE LET b == bs[c.batch]
                 b2 == [b EXCEPT !.results = RecordOutcome(b.results, c.pos, c)]
                 bs2 == [bs EXCEPT ![c.batch] = b2]
             IN  IF BatchSettled(b2) /\ b2.origin = "visible"
                 THEN ThenRemaining(cs2, ch, bs2, images)
                 ELSE [calls |-> cs2, batches |-> bs2]

\* onload whose cache.set evicts every other entry
CacheSetEvicting(ch, src, handle) == [s \in {src} |-> handle]

\* onload without the cache.set
CacheSetSkipped(ch, src, handle) == ch

\* img.onload / video.onloadeddata of call k: cache.set(src, img); resolve(img)
CacheSet(ch, src, handle) ==
    [s \in DOMAIN ch \cup {src} |-> IF s = src THEN handle ELSE ch[s]]

OnLoadCall(cs, k) == [cs EXCEPT ![k].status = "resolved", ![k].handle = k]

\* onerror starting the load again before it rejects
OnErrorCallRetrying(cs, k) ==
    Append([cs EXCEPT ![k].status = "rejected", ![k].error = LoadError(cs[k].src)],
           Call(cs[k].src, "pending", 0, TRUE, cs[k].origin, 0, 0))

\* onerror without the reject
OnErrorCallSilent(cs, k) == cs

\* img.onerror / video.onerror of call k: reject(new Error(...))
OnErrorCall(cs, k) ==
    [cs EXCEPT ![k].status = "rejected", ![k].error = LoadError(cs[k].src)]

----------------------------------------------------------------------------
(* DOM and timer primitives *)

EscHandler(k) == [ov |-> k, handler |-> "escHandler"]
KeyNavHandler(k) == [ov |-> k, handler |-> "keyNavHandler"]

\* document.querySelector('.preview-overlay'): the first overlay node in
\* the document, 0 for null (every overlay keeps the class preview-overlay)
QuerySelector(b) == IF b = << >> THEN 0 ELSE Head(b)

RemoveEventListener(ls, l) == SelectSeq(ls, LAMBDA x : x # l)

AddEventListener(ls, l) == IF l \in Range(ls) THEN ls ELSE Append(ls, l)

\* node.remove()
RemoveNode(b, k) == SelectSeq(b, LAMBDA x : x # k)

\* setTimeout: timers are kept in the order they were set
SetTimeout(ts, t) == Append(ts, t)

\* The timer at position i may run next when no timer set before it with a
\* delay no longer than its own is still pending: timers come due in the
\* order of their deadlines, and a timer set earlier with a delay that is
\* not longer has the earlier deadline.  How much time passes between two
\* tasks is left open.
Due(ts, i) == \A j \in 1..(i - 1) : ts[j].delay > ts[i].delay

RemoveAt(ts, i) == SubSeq(ts, 1, i - 1) \o SubSeq(ts, i + 1, Len(ts))

\* a pending callback: fn is "cleanup" (of overlay ov) or "show" (of index,
\* set by overlay ov).  Two fields are bookkeeping for the properties:
\* escActive marks a cleanup that escHandler set while its overlay was
\* active, key is the arrow key behind a "show".
CleanupTimer(k, delay, escActive) ==
    [delay |-> delay, fn |-> "cleanup", ov |-> k, index |-> 0,
     escActive |-> escActive, key |-> "none"]

ShowTimer(k, index, delay, key) ==
    [delay |-> delay, fn |-> "show", ov |-> k, index |-> index,
     escActive |-> FALSE, key |-> key]

----------------------------------------------------------------------------
(* showPreview and the closures of one overlay *)

\* the teardown without existingOverlay.remove()
RemoveExistingKeepNode(ls, b) ==
    LET existingOverlay == QuerySelector(b)
    IN  IF existingOverlay # 0
        THEN [listeners |-> RemoveEventListener(
                                RemoveEventListener(ls, EscHandler(existingOverlay)),
                                KeyNavHandler(existingOverlay)),
              body |-> b]
        ELSE [listeners |-> ls, body |-> b]

\* the teardown without the two removeEventListener calls
RemoveExistingKeepListeners(ls, b) ==
    LET existingOverlay == QuerySelector(b)
    IN  IF existingOverlay # 0
        THEN [listeners |-> ls, body |-> RemoveNode(b, existingOverlay)]
        ELSE [listeners |-> ls, body |-> b]

\* showPreview, the teardown of the existing overlay
RemoveExisting(ls, b) ==
    LET existingOverlay == QuerySelector(b)
    IN  IF existingOverlay # 0
        THEN [listeners |-> RemoveEventListener(
                                RemoveEventListener(ls, EscHandler(existingOverlay)),
                                KeyNavHandler(existingOverlay)),
              body |-> RemoveNode(b, existingOverlay)]
        ELSE [listeners |-> ls, body |-> b]

NoMessage == [kind |-> "none", src |-> Src(0)]

\* the overlay node showPreview builds, with its content element; content
\* is the event the browser has delivered to that element ("pending": none)
NewOverlay(src, isVideo) ==
    [src |-> src, isVideo |-> isVideo, classes |-> {"preview-overlay", "loading"},
     children |-> <<"loader", "content">>, message |-> NoMessage,
     content |-> "pending"]

\* showPreview(src, isVideo)
ShowPreview(ovs, ls, b, src, isVideo) ==
    LET r == RemoveExisting(ls, b)
        k == Len(ovs) + 1
    IN  [overlays |-> Append(ovs, NewOverlay(src, isVideo)),
         listeners |-> AddEventListener(AddEventListener(r.listeners, EscHandler(k)),
                                        KeyNavHandler(k)),
         body |-> Append(r.body, k)]

\* cleanup without overlay.remove()
CleanupKeepNode(ls, b, k) ==
    [listeners |-> RemoveEventListener(RemoveEventListener(ls, EscHandler(k)),
                                       KeyNavHandler(k)),
     body |-> b]

\* cleanup without the two removeEventListener calls
CleanupKeepListeners(ls, b, k) == [listeners |-> ls, body |-> RemoveNode(b, k)]

\* cleanup of overlay k
Cleanup(ls, b, k) ==
    [listeners |-> RemoveEventListener(RemoveEventListener(ls, EscHandler(k)),
                                       KeyNavHandler(k)),
     body |-> RemoveNode(b, k)]

\* closePreview of overlay k; byEsc says that escHandler is the caller
ClosePreview(ovs, ts, k, byEsc) ==
    [overlays |-> [ovs EXCEPT ![k].classes = @ \ {"active"}],
     timers |-> SetTimeout(ts, CleanupTimer(k, CloseDelay,
                                            byEsc /\ "active" \in ovs[k].classes))]

\* loadHandler of overlay k
LoadHandler(ovs, k) ==
    [ovs EXCEPT ![k].classes = (@ \ {"loading"}) \cup {"active"}]

\* the message content.onerror writes into the overlay
FailureMessage(src) == [kind |-> "load-failed-retry / Failed to load", src |-> src]

\* content.onerror of overlay k
ContentOnError(ovs, ts, k) ==
    [overlays |-> [ovs EXCEPT ![k].children = <<"message">>,
                              ![k].message = FailureMessage(ovs[k].src)],
     timers |-> SetTimeout(ts, CleanupTimer(k, ErrorDelay, FALSE))]

\* overlay.onclick without the test of the click's target
OnClickAnyTarget(ovs, ts, k, target) == ClosePreview(ovs, ts, k, FALSE)

\* overlay.onclick of overlay k
OnClick(ovs, ts, k, target) ==
    IF target = "overlay" THEN ClosePreview(ovs, ts, k, FALSE)
    ELSE [overlays |-> ovs, timers |-> ts]

\* overlay.escHandler of overlay k
OnEsc(ovs, ts, k, key) ==
    IF key = "Escape" THEN ClosePreview(ovs, ts, k, TRUE)
    ELSE [overlays |-> ovs, timers |-> ts]

\* newIndex that stops at the ends of the list instead of wrapping
NewIndexClamped(images, src, direction) ==
    LET currentIndex == IndexOf(images, src)
        n == currentIndex + direction
    IN  IF n < 0 THEN 0 ELSE IF n >= Len(images) THEN Len(images) - 1 ELSE n

\* newIndex of keyNavHandler
NewIndex(images, src, direction) ==
    LET currentIndex == IndexOf(images, src)
    IN  JsRem(currentIndex + direction + Len(images), Len(images))

\* keyNavHandler stepping on from the target of the press before
OnKeyNavAccumulating(ovs, ts, k, key, images) ==
    IF key = "ArrowLeft" \/ key = "ArrowRight"
    THEN LET direction == IF key = "ArrowLeft" THEN -1 ELSE 1
             earlier == SelectSeq(ts, LAMBDA t : t.fn = "show" /\ t.ov = k)
             from == IF earlier = << >> THEN ovs[k].src
                     ELSE At(images, earlier[Len(earlier)].index)
             newIndex == NewIndex(images, from, direction)
             c == ClosePreview(ovs, ts, k, FALSE)
         IN  [overlays |-> c.overlays,
              timers |-> SetTimeout(c.timers, ShowTimer(k, newIndex, CloseDelay, key))]
    ELSE [overlays |-> ovs, timers |-> ts]

\* overlay.keyNavHandler of overlay k
OnKeyNav(ovs, ts, k, key, images) ==
    IF key = "ArrowLeft" \/ key = "ArrowRight"
    THEN LET direction == IF key = "ArrowLeft" THEN -1 ELSE 1
             newIndex == NewIndex(images, ovs[k].src, direction)
             c == ClosePreview(ovs, ts, k, FALSE)
         IN  [overlays |-> c.overlays,
              timers |-> SetTimeout(c.timers, ShowTimer(k, newIndex, CloseDelay, key))]
    ELSE [overlays |-> ovs, timers |-> ts]

\* a keydown event: the listeners attached to document run in the order
\* they were registered
RECURSIVE Dispatch(_, _, _, _, _)
Dispatch(ls, ovs, ts, key, images) ==
    IF ls = << >> THEN [overlays |-> ovs, timers |-> ts]
    ELSE LET l == Head(ls)
             r == IF l.handler = "escHandler" THEN OnEsc(ovs, ts, l.ov, key)
                  ELSE OnKeyNav(ovs, ts, l.ov, key, images)
         IN  Dispatch(Tail(ls), r.overlays, r.timers, key, images)

----------------------------------------------------------------------------
(* showProjectImages *)

\* showProjectImages preloading the item it shows instead of the next one
ShowProjectImagesPreloadsShown(ovs, ls, b, cs, ch, index, images) ==
    LET src == At(images, index)
        p == ShowPreview(ovs, ls, b, src, IsVideo(src))
    IN  [overlays |-> p.overlays, listeners |-> p.listeners, body |-> p.body,
         calls |-> PreloadCall(cs, ch, src, "next", 0, 0)]

\* showProjectImages(index, images) for an index inside the array
ShowProjectImages(ovs, ls, b, cs, ch, index, images) ==
    LET src == At(images, index)
        p == ShowPreview(ovs, ls, b, src, IsVideo(src))
        nextIndex == (index + 1) % Len(images)
    IN  [overlays |-> p.overlays, listeners |-> p.listeners, body |-> p.body,
         calls |-> IF nextIndex # index
                   THEN PreloadCall(cs, ch, At(images, nextIndex), "next", 0, 0)
                   ELSE cs]

----------------------------------------------------------------------------
(* The state after the script has run, and one action per task *)

Keys == {"Escape", "ArrowLeft", "ArrowRight", "Enter"}
Targets == {"overlay", "child"}

Init ==
    /\ archProjectImages = Gallery(NumImages)
    /\ ready = FALSE
    /\ cache = << >>
    /\ calls = << >>
    /\ batches = << >>
    /\ overlays = << >>
    /\ body = << >>
    /\ listeners = << >>
    /\ timers = << >>
    /\ uncaught = FALSE
    /\ budget = MaxOverlays

\* showPreview calls still to come from pending timers
PendingShows(ts) == Len(SelectSeq(ts, LAMBDA t : t.fn = "show"))

\* the DOMContentLoaded listener
DOMContentLoaded ==
    /\ ~ready
    /\ ready' = TRUE
    /\ LET r == InitializeProjectGallery(calls, cache, batches, archProjectImages)
       IN  calls' = r.calls /\ batches' = r.batches
    /\ UNCHANGED <<budget, archProjectImages, cache, overlays, body, listeners, timers, uncaught>>

\* img.onload / video.onloadeddata of preload call k
PreloadLoaded(k) ==
    /\ k \in DOMAIN calls
    /\ calls[k].load /\ calls[k].event = "none"
    /\ LET cs == OnLoadCall([calls EXCEPT ![k].event = "load"], k)
           ch == CacheSet(cache, calls[k].src, k)
           r == React(cs, ch, batches, k, archProjectImages)
       IN  cache' = ch /\ calls' = r.calls /\ batches' = r.batches
    /\ UNCHANGED <<budget, archProjectImages, ready, overlays, body, listeners, timers, uncaught>>

\* img.onerror / video.onerror of preload call k
PreloadFailed(k) ==
    /\ k \in DOMAIN calls
    /\ calls[k].load /\ calls[k].event = "none"
    /\ LET cs == OnErrorCall([calls EXCEPT ![k].event = "error"], k)
           r == React(cs, cache, batches, k, archProjectImages)
       IN  calls' = r.calls /\ batches' = r.batches
    /\ UNCHANGED <<budget, archProjectImages, ready, cache, overlays, body, listeners, timers, uncaught>>

\* window.showArchProjectImages(index)
ShowArchProjectImages(index) ==
    IF InRange(archProjectImages, index)
    THEN /\ Len(overlays) + PendingShows(timers) < budget
         /\ LET r == ShowProjectImages(overlays, listeners, body, calls, cache,
                                       index, archProjectImages)
            IN  /\ overlays' = r.overlays
                /\ listeners' = r.listeners
                /\ body' = r.body
                /\ calls' = r.calls
         /\ UNCHANGED <<budget, archProjectImages, ready, cache, batches, timers, uncaught>>
    ELSE \* images[index] is undefined and src.endsWith throws
         /\ uncaught' = TRUE
         /\ UNCHANGED <<budget, archProjectImages, ready, cache, calls, batches, overlays,
                        body, listeners, timers>>

\* content.onload / content.onloadeddata of overlay k
ContentLoaded(k) ==
    /\ k \in DOMAIN overlays
    /\ overlays[k].content = "pending"
    /\ overlays' = LoadHandler([overlays EXCEPT ![k].content = "loaded"], k)
    /\ UNCHANGED <<budget, archProjectImages, ready, cache, calls, batches, body, listeners,
                   timers, uncaught>>

\* content.onerror of overlay k
ContentFailed(k) ==
    /\ k \in DOMAIN overlays
    /\ overlays[k].content = "pending"
    /\ LET r == ContentOnError([overlays EXCEPT ![k].content = "failed"], timers, k)
       IN  overlays' = r.overlays /\ timers' = r.timers
    /\ UNCHANGED <<budget, archProjectImages, ready, cache, calls, batches, body, listeners,
                   uncaught>>

\* a click inside the overlay that is in the document
Click(target) ==
    /\ body # << >>
    /\ LET r == OnClick(overlays, timers, Head(body), target)
       IN  /\ Len(r.timers) <= MaxTimers
           /\ overlays' = r.overlays /\ timers' = r.timers
    /\ UNCHANGED <<budget, archProjectImages, ready, cache, calls, batches, body, listeners,
                   uncaught>>

\* a keydown event on document
KeyDown(key) ==
    /\ LET r == Dispatch(listeners, overlays, timers, key, archProjectImages)
       IN  /\ Len(r.timers) <= MaxTimers
           /\ Len(overlays) + PendingShows(r.timers) <= budget
           /\ overlays' = r.overlays /\ timers' = r.timers
    /\ UNCHANGED <<budget, archProjectImages, ready, cache, calls, batches, body, listeners,
                   uncaught>>

\* the timer at position i runs
TimerFire(i) ==
    /\ i \in DOMAIN timers
    /\ Due(timers, i)
    /\ timers' = RemoveAt(timers, i)
    /\ LET t == timers[i]
       IN  IF t.fn = "cleanup"
           THEN /\ LET r == Cleanup(listeners, body, t.ov)
                   IN  listeners' = r.listeners /\ body' = r.body
                /\ UNCHANGED <<overlays, calls>>
           ELSE LET r == ShowProjectImages(overlays, listeners, body, calls, cache,
                                           t.index, archProjectImages)
                IN  /\ overlays' = r.overlays
                    /\ listeners' = r.listeners
                    /\ body' = r.body
                    /\ calls' = r.calls
    /\ UNCHANGED <<budget, archProjectImages, ready, cache, batches, uncaught>>

\* every index a caller may pass: the positions of the list and one on
\* either side of it
Indexes == -1..NumImages
ValidIndexes == 0..(NumImages - 1)

Next ==
    \/ DOMContentLoaded
    \/ \E k \in DOMAIN calls : PreloadLoaded(k)
    \/ \E k \in DOMAIN calls : PreloadFailed(k)
    \/ \E index \in Indexes : ShowArchProjectImages(index)
    \/ \E k \in DOMAIN overlays : ContentLoaded(k)
    \/ \E k \in DOMAIN overlays : ContentFailed(k)
    \/ \E target \in Targets : Click(target)
    \/ \E key \in Keys : KeyDown(key)
    \/ \E i \in DOMAIN timers : TimerFire(i)

Spec == Init /\ [][Next]_vars

(***************************************************************************)
(* The overlay code reads neither the cache nor the preload calls, and     *)
(* PreloadManager reads nothing of the overlay.  The two specifications    *)
(* below follow one of the two at a time, with callers that pass positions *)
(* of the list: SpecOverlay leaves the loads of preload undelivered,       *)
(* SpecPreload leaves the overlay's events and the user's input out.       *)
(***************************************************************************)
NextOverlay ==
    \/ \E index \in ValidIndexes : ShowArchProjectImages(index)
    \/ \E k \in DOMAIN overlays : ContentLoaded(k)
    \/ \E k \in DOMAIN overlays : ContentFailed(k)
    \/ \E target \in Targets : Click(target)
    \/ \E key \in Keys : KeyDown(key)
    \/ \E i \in DOMAIN timers : TimerFire(i)

SpecOverlay == Init /\ [][NextOverlay]_vars

NextPreload ==
    \/ DOMContentLoaded
    \/ \E k \in DOMAIN calls : PreloadLoaded(k)
    \/ \E k \in DOMAIN calls : PreloadFailed(k)
    \/ \E index \in ValidIndexes : ShowArchProjectImages(index)

SpecPreload == Init /\ [][NextPreload]_vars

\* preload calls one behaviour can make
MaxCalls == NumImages + MaxOverlays

\* SpecPreload with a browser that delivers, to every element preload has
\* created, its load or its error event
LivePreload ==
    /\ SpecPreload
    /\ \A k \in 1..MaxCalls : WF_vars(PreloadLoaded(k) \/ PreloadFailed(k))

\* a list longer than the visible prefix
LongLen == VisibleCount + 1

\* The page with a list that fits the visible prefix or with one that
\* does not: initializeProjectGallery and the loads it starts
InitEither ==
    /\ archProjectImages \in {Gallery(NumImages), Gallery(LongLen)}
    /\ ready = FALSE
    /\ cache = << >>
    /\ calls = << >>
    /\ batches = << >>
    /\ overlays = << >>
    /\ body = << >>
    /\ listeners = << >>
    /\ timers = << >>
    /\ uncaught = FALSE
    /\ budget = MaxOverlays

NextInitialize ==
    \/ DOMContentLoaded
    \/ \E k \in DOMAIN calls : PreloadLoaded(k)
    \/ \E k \in DOMAIN calls : PreloadFailed(k)

SpecInitialize == InitEither /\ [][NextInitialize]_vars

\* showProjectImages on a list of any length from one item on, with the
\* loads of its next-item preloads
InitAnyLength ==
    /\ archProjectImages \in {Gallery(n) : n \in 1..NumImages}
    /\ ready = FALSE
    /\ cache = << >>
    /\ calls = << >>
    /\ batches = << >>
    /\ overlays = << >>
    /\ body = << >>
    /\ listeners = << >>
    /\ timers = << >>
    /\ uncaught = FALSE
    /\ budget = MaxOverlays

NextNavigate ==
    \/ \E index \in ValidIndexes :
           InRange(archProjectImages, index) /\ ShowArchProjectImages(index)
    \/ \E k \in DOMAIN calls : PreloadLoaded(k)
    \/ \E k \in DOMAIN calls : PreloadFailed(k)

SpecNavigate == InitAnyLength /\ [][NextNavigate]_vars

\* The entry point called with any index, the events of the overlays it
\* opens and their timers
NextEntry ==
    \/ \E index \in Indexes : ShowArchProjectImages(index)
    \/ \E k \in DOMAIN overlays : ContentLoaded(k)
    \/ \E k \in DOMAIN overlays : ContentFailed(k)
    \/ \E i \in DOMAIN timers : TimerFire(i)

SpecEntry == Init /\ [][NextEntry]_vars

\* One overlay more than elsewhere: an overlay, the overlay that supersedes
\* it and the overlay a timer of the first one opens after that
InitSupersede ==
    /\ archProjectImages = Gallery(NumImages)
    /\ ready = FALSE
    /\ cache = << >>
    /\ calls = << >>
    /\ batches = << >>
    /\ overlays = << >>
    /\ body = << >>
    /\ listeners = << >>
    /\ timers = << >>
    /\ uncaught = FALSE
    /\ budget = MaxOverlays + 1

NextSupersede ==
    \/ \E index \in ValidIndexes : ShowArchProjectImages(index)
    \/ \E k \in DOMAIN overlays : ContentLoaded(k)
    \/ \E k \in DOMAIN overlays : ContentFailed(k)
    \/ \E key \in Keys : KeyDown(key)
    \/ \E i \in DOMAIN timers : TimerFire(i)

SpecSupersede == InitSupersede /\ [][NextSupersede]_vars

\* A list longer than the visible prefix and one call of the entry point:
\* the visible batch, the remaining batch and a next-item preload
InitLongList ==
    /\ archProjectImages = Gallery(LongLen)
    /\ ready = FALSE
    /\ cache = << >>
    /\ calls = << >>
    /\ batches = << >>
    /\ overlays = << >>
    /\ body = << >>
    /\ listeners = << >>
    /\ timers = << >>
    /\ uncaught = FALSE
    /\ budget = 1

SpecBatches == InitLongList /\ [][NextPreload]_vars

\* Repeated arrow keys on a list long enough for the two neighbours of an
\* item and the items two steps away to be four different items
InitArrows ==
    /\ archProjectImages = Gallery(LongLen)
    /\ ready = FALSE
    /\ cache = << >>
    /\ calls = << >>
    /\ batches = << >>
    /\ overlays = << >>
    /\ body = << >>
    /\ listeners = << >>
    /\ timers = << >>
    /\ uncaught = FALSE
    /\ budget = MaxOverlays + 1

SpecArrows == InitArrows /\ [][NextSupersede]_vars

----------------------------------------------------------------------------
(* Properties *)

OverlaysOf(b) == {b[i] : i \in DOMAIN b}

\* C1: in every reachable state the document holds at most one overlay
\* node, however show calls, key presses, clicks, load / error events and
\* timers interleave.
SingleOverlay == Len(body) <= 1

\* the second overlay was opened while the first, already closing, was
\* still in the document: it is the only node
ReplacedWhileClosing ==
    /\ Len(overlays) = 2
    /\ body = <<2>>
    /\ \E i \in DOMAIN timers : timers[i].fn = "cleanup" /\ timers[i].ov = 1

\* C2: the keydown listeners attached to document are the escHandler and
\* keyNavHandler of the overlay that is in the document and of no other
\* overlay, so at most two are attached; an overlay that was replaced or
\* removed has neither of its listeners attached.
ListenersOfCurrent ==
    /\ \A i \in DOMAIN listeners : listeners[i].ov \in OverlaysOf(body)
    /\ Len(listeners) <= 2
    /\ \A k \in DOMAIN overlays :
           k \notin OverlaysOf(body) =>
               /\ EscHandler(k) \notin Range(listeners)
               /\ KeyNavHandler(k) \notin Range(listeners)

\* overlay 2 was opened over overlay 1, whose content was still loading
\* and which nothing had closed: only overlay 2's listeners are attached
SecondOverFirst ==
    /\ Len(overlays) = 2
    /\ overlays[1].content = "pending"
    /\ timers = << >>
    /\ listeners = <<EscHandler(2), KeyNavHandler(2)>>

NewCalls == {k \in DOMAIN calls' : k \notin DOMAIN calls}
NewOverlays == {k \in DOMAIN overlays' : k \notin DOMAIN overlays}

\* C3 as stated: over any sequence of initialize, show and preload
\* operations a load of one source identifier is started at most once.
LoadedAtMostOnce ==
    \A k1, k2 \in DOMAIN calls :
        (calls[k1].load /\ calls[k2].load /\ calls[k1].src = calls[k2].src) => k1 = k2

\* C3, amended: a preload call starts a load only when its identifier is
\* not in the cache at the time of the call, so once an identifier is
\* cached no later preload call loads it again; the content element of a
\* new overlay loads its source whether or not the source is cached.
NoLoadOnceCached ==
    [][/\ \A k \in NewCalls : calls'[k].load => calls'[k].src \notin DOMAIN cache'
       /\ \A k \in NewCalls : calls'[k].load \/ calls'[k].src \in DOMAIN cache'
       /\ \A k \in NewOverlays : overlays'[k].content = "pending"]_vars

\* one identifier was loaded by two overlapping calls and, once cached,
\* a third call for it started no load
TwoLoadsThenCached ==
    \E k1, k2, k3 \in DOMAIN calls :
        /\ k1 < k2 /\ k2 < k3
        /\ calls[k1].src = calls[k2].src /\ calls[k2].src = calls[k3].src
        /\ calls[k1].load /\ calls[k2].load /\ ~calls[k3].load

\* C4: a preload call for an identifier that is in the cache resolves with
\* exactly the handle the cache holds for it, starts no load and leaves
\* the cache as it was.
ServedFromCache ==
    [][\A k \in NewCalls :
          calls'[k].src \in DOMAIN cache' =>
              /\ calls'[k].status = "resolved"
              /\ calls'[k].handle = cache'[calls'[k].src]
              /\ ~calls'[k].load
              /\ (\A j \in DOMAIN calls : calls'[j] = calls[j]) => cache' = cache]_vars

\* a call was answered from the cache with the handle of an earlier call
AnsweredFromCache ==
    \E k \in DOMAIN calls :
        /\ ~calls[k].load
        /\ calls[k].status = "resolved"
        /\ calls[k].handle < k
        /\ cache[calls[k].src] = calls[k].handle

Settled(c) == c.status = "resolved" \/ c.status = "rejected"

\* C5: every preload call for an identifier that is not cached settles
\* once the browser has delivered the load or the error event of its
\* element, and a settled call never changes again.
EventuallySettles ==
    /\ \A k \in 1..MaxCalls :
           (k \in DOMAIN calls /\ calls[k].status = "pending")
               ~> (k \in DOMAIN calls /\ Settled(calls[k]))
    /\ [][\A k \in DOMAIN calls :
             Settled(calls[k]) =>
                 /\ calls'[k].status = calls[k].status
                 /\ calls'[k].handle = calls[k].handle
                 /\ calls'[k].error = calls[k].error]_vars

\* every call has settled, some by a load and some by an error
AllSettledBothWays ==
    /\ Len(calls) = MaxCalls
    /\ \A k \in DOMAIN calls : Settled(calls[k])
    /\ \E k \in DOMAIN calls : calls[k].event = "load"
    /\ \E k \in DOMAIN calls : calls[k].event = "error"

Settles(k) == calls[k].status = "pending" /\ Settled(calls'[k])

\* C6 as stated: when a call for an identifier that was not cached
\* settles, the cache holds the identifier if the call resolved and does
\* not hold it if the call rejected.
CachedExactlyOnSuccess ==
    [][\A k \in DOMAIN calls :
          Settles(k) =>
              /\ calls'[k].status = "resolved" => calls[k].src \in DOMAIN cache'
              /\ calls'[k].status = "rejected" => calls[k].src \notin DOMAIN cache']_vars

\* C6, amended: a call that resolves has stored its handle in the cache
\* under its identifier; a call that rejects carries the load-failure
\* error of its identifier and leaves the cache as it was, so the cache
\* then holds the identifier only if another call for it had succeeded.
CachedBySuccessOnly ==
    [][\A k \in DOMAIN calls :
          Settles(k) =>
              /\ calls'[k].status = "resolved" =>
                     /\ calls[k].src \in DOMAIN cache'
                     /\ cache'[calls[k].src] = calls'[k].handle
                     /\ calls'[k].handle = k
              /\ calls'[k].status = "rejected" =>
                     /\ cache' = cache
                     /\ calls'[k].error = LoadError(calls[k].src)]_vars

\* of two calls that loaded the same identifier one resolved and the
\* other rejected
OneResolvedOneRejected ==
    \E k1, k2 \in DOMAIN calls :
        /\ calls[k1].src = calls[k2].src
        /\ calls[k1].event = "load" /\ calls[k1].status = "resolved"
        /\ calls[k2].event = "error" /\ calls[k2].status = "rejected"
        /\ cache[calls[k1].src] = k1

\* C7: preloadAll starts one preload per identifier, in the order of its
\* input; slot k of its result is pending as long as the preload of
\* ids[k] is, then holds that preload's outcome (its handle, or the error
\* of ids[k]), whatever the order in which the loads complete; the whole
\* is settled exactly when every preload is, a failure included.
OutcomesInInputOrder ==
    \A b \in DOMAIN batches :
        LET B == batches[b]
        IN  /\ Len(B.results) = Len(B.sources)
            /\ \A i \in DOMAIN B.sources :
                   LET c == calls[B.first + i - 1]
                   IN  /\ c.src = B.sources[i]
                       /\ c.batch = b /\ c.pos = i
                       /\ c.status = "pending" <=> B.results[i].status = "pending"
                       /\ c.status = "resolved" =>
                              B.results[i] = [status |-> "fulfilled",
                                              handle |-> c.handle, error |-> NoError]
                       /\ c.status = "rejected" =>
                              B.results[i] = [status |-> "rejected", handle |-> 0,
                                              error |-> LoadError(B.sources[i])]
            /\ BatchSettled(B) <=>
                   \A i \in DOMAIN B.sources : Settled(calls[B.first + i - 1])

\* preloadAll of three identifiers settled with the outcomes success,
\* failure, success
SuccessFailureSuccess ==
    \E b \in DOMAIN batches :
        /\ Len(batches[b].sources) = 3
        /\ batches[b].results[1].status = "fulfilled"
        /\ batches[b].results[2].status = "rejected"
        /\ batches[b].results[3].status = "fulfilled"
        /\ batches[b].results[2].error.src = batches[b].sources[2]

\* the step is the run of the timer at position i
Fires(i) == i \in DOMAIN timers /\ timers' = RemoveAt(timers, i)

Direction(key) == IF key = "ArrowLeft" THEN -1 ELSE 1

\* the position after one step in a direction, wrapping at both ends
Neighbour(i, direction) ==
    IF i + direction < 0 THEN Len(archProjectImages) - 1
    ELSE IF i + direction >= Len(archProjectImages) THEN 0
    ELSE i + direction

\* the step is an arrow key handled by keyNavHandler of overlay k
Navigates(k) ==
    /\ Len(timers') = Len(timers) + 2
    /\ timers'[Len(timers')].fn = "show"
    /\ timers'[Len(timers')].ov = k

\* C8: an arrow key on the overlay showing position i closes that overlay
\* (the active state goes, its cleanup is set for 300 ms) and sets, for
\* 300 ms, the opening of position (i + direction + N) mod N; when that
\* timer runs the old overlay is out of the document already and the new
\* overlay shows that position, wrapping at both ends of the list.
ArrowOpensNeighbour ==
    [][/\ \A k \in DOMAIN overlays :
              Navigates(k) =>
                  LET c == timers'[Len(timers') - 1]
                      t == timers'[Len(timers')]
                  IN  /\ "active" \notin overlays'[k].classes
                      /\ c.fn = "cleanup" /\ c.ov = k /\ c.delay = CloseDelay
                      /\ t.delay = CloseDelay
                      /\ t.index = Neighbour(IndexOf(archProjectImages, overlays[k].src),
                                             Direction(t.key))
       /\ \A i \in DOMAIN timers :
              (Fires(i) /\ timers[i].fn = "show") =>
                  LET t == timers[i]
                      new == Len(overlays')
                  IN  /\ t.ov \notin OverlaysOf(body)
                      /\ new = Len(overlays) + 1
                      /\ body' = <<new>>
                      /\ overlays'[new].src = At(archProjectImages, t.index)
                      /\ t.index = Neighbour(IndexOf(archProjectImages, overlays[t.ov].src),
                                             Direction(t.key))]_vars

\* ArrowRight on the last position: the old overlay has been removed and
\* the opening of position 0 is about to run
WrapAboutToOpen ==
    \E i \in DOMAIN timers :
        /\ timers[i].fn = "show" /\ timers[i].key = "ArrowRight"
        /\ timers[i].index = 0
        /\ overlays[timers[i].ov].src = archProjectImages[NumImages]
        /\ body = << >>
        /\ Due(timers, i)

\* C9 as stated: when the cleanup that Escape set on an active overlay
\* runs, 300 ms later, the document holds no overlay node.
EscapeLeavesNoOverlay ==
    [][\A i \in DOMAIN timers :
          (Fires(i) /\ timers[i].escActive) => body' = << >>]_vars

\* C9, amended: Escape on an active overlay removes the active state at
\* once and sets the cleanup for 300 ms; when that cleanup runs the
\* overlay that received the key is out of the document and its listeners
\* are detached, and the document holds no overlay node unless a later
\* overlay has been opened in the meantime.
EscapeRemovesThatOverlay ==
    [][/\ \A k \in DOMAIN overlays :
              (Len(timers') = Len(timers) + 1 /\ timers'[Len(timers')].escActive
                   /\ timers'[Len(timers')].ov = k) =>
                  /\ "active" \in overlays[k].classes
                  /\ "active" \notin overlays'[k].classes
                  /\ timers'[Len(timers')].delay = CloseDelay
                  /\ body' = <<k>>
       /\ \A i \in DOMAIN timers :
              (Fires(i) /\ timers[i].escActive) =>
                  /\ timers[i].ov \notin OverlaysOf(body')
                  /\ \A j \in DOMAIN listeners' : listeners'[j].ov # timers[i].ov
                  /\ Len(overlays) = timers[i].ov => body' = << >>]_vars

\* Escape has been pressed on the active overlay, which is still in the
\* document, no longer active, with its cleanup pending
EscapePending ==
    \E i \in DOMAIN timers :
        /\ timers[i].escActive
        /\ body = <<timers[i].ov>>
        /\ "active" \notin overlays[timers[i].ov].classes
        /\ overlays[timers[i].ov].content = "loaded"

\* C10: a load error of the content replaces what the overlay holds by the
\* failure message naming the identifier the overlay was opened for and
\* sets the cleanup for 2000 ms; when that cleanup runs the overlay is out
\* of the document and its two listeners are detached.
ErrorShownThenRemoved ==
    [][/\ \A k \in DOMAIN overlays :
              (overlays[k].content = "pending" /\ overlays'[k].content = "failed") =>
                  /\ overlays'[k].children = <<"message">>
                  /\ overlays'[k].message = FailureMessage(overlays[k].src)
                  /\ timers' = Append(timers, CleanupTimer(k, ErrorDelay, FALSE))
       /\ \A k \in DOMAIN overlays :
              overlays[k].content = "failed" => overlays'[k].message = overlays[k].message
       /\ \A i \in DOMAIN timers :
              (Fires(i) /\ timers[i].delay = ErrorDelay) =>
                  /\ timers[i].fn = "cleanup"
                  /\ overlays[timers[i].ov].content = "failed"
                  /\ timers[i].ov \notin OverlaysOf(body')
                  /\ EscHandler(timers[i].ov) \notin Range(listeners')
                  /\ KeyNavHandler(timers[i].ov) \notin Range(listeners')]_vars

\* the overlay in the document shows the failure message and its
\* 2000 ms cleanup is the next timer to run
ErrorCleanupDue ==
    \E i \in DOMAIN timers :
        /\ timers[i].delay = ErrorDelay
        /\ Due(timers, i)
        /\ body = <<timers[i].ov>>
        /\ overlays[timers[i].ov].message = FailureMessage(overlays[timers[i].ov].src)
        /\ EscHandler(timers[i].ov) \in Range(listeners)

\* C11: showArchProjectImages surfaces no error to its caller, whatever
\* integer it is given: no exception escapes a handler.
NeverThrows == ~uncaught

CallsFrom(origin) == {k \in DOMAIN calls : calls[k].origin = origin}
BatchesFrom(origin) == {b \in DOMAIN batches : batches[b].origin = origin}

\* C12: initialize starts preloads for exactly the first 5 items (all of
\* them when the list is shorter); it starts the preloads of the items
\* from position 5 on, one for each, only once every preload of the prefix
\* has settled, by success or by failure, and then it does; a list of 5
\* items or fewer gets no second batch.
PrefixThenRest ==
    LET images == archProjectImages
        prefix == Slice(images, 0, VisibleCount)
        rest == Slice(images, VisibleCount, Len(images))
    IN  /\ ready <=> BatchesFrom("visible") # {}
        /\ Cardinality(BatchesFrom("visible")) <= 1
        /\ Cardinality(BatchesFrom("remaining")) <= 1
        /\ \A b \in BatchesFrom("visible") :
               /\ batches[b].sources = prefix
               /\ CallsFrom("visible") =
                      {batches[b].first + i - 1 : i \in DOMAIN prefix}
               /\ (BatchSettled(batches[b]) /\ Len(images) > VisibleCount)
                      <=> BatchesFrom("remaining") # {}
        /\ \A b \in BatchesFrom("remaining") :
               /\ batches[b].sources = rest
               /\ CallsFrom("remaining") =
                      {batches[b].first + i - 1 : i \in DOMAIN rest}
               /\ \A k \in CallsFrom("visible") : Settled(calls[k])
        /\ BatchesFrom("remaining") = {} => CallsFrom("remaining") = {}
        /\ Len(images) <= VisibleCount => CallsFrom("remaining") = {}

\* the second batch has been started after a prefix in which one preload
\* failed and one succeeded
RestAfterMixedPrefix ==
    /\ CallsFrom("remaining") # {}
    /\ \E k \in CallsFrom("visible") : calls[k].status = "rejected"
    /\ \E k \in CallsFrom("visible") : calls[k].status = "resolved"

\* the position after index in the list, wrapping
NextOf(src) ==
    At(archProjectImages, (IndexOf(archProjectImages, src) + 1) % Len(archProjectImages))

\* the step is the failure of the load of call k
Fails(k) == calls[k].event = "none" /\ calls'[k].event = "error"

\* C13 as stated: for every valid index of a non-empty list navigateTo
\* opens the overlay for list[index] and starts a preload of the next
\* item, list[(index + 1) mod length].
ShowPreloadsNext ==
    [][\A o \in NewOverlays :
          /\ body' = <<o>>
          /\ \E k \in NewCalls : calls'[k].src = NextOf(overlays'[o].src)]_vars

\* C13, amended: navigateTo opens the overlay for list[index] and, when
\* the list has more than one item, makes one preload call for the next
\* item, list[(index + 1) mod length]; on a list of one item it makes no
\* preload call.  A failure of that preload is only logged: it changes
\* neither the overlays nor the cache and starts nothing.
ShowPreloadsNextIfAny ==
    [][/\ \A o \in NewOverlays :
              /\ body' = <<o>>
              /\ overlays'[o].src \in Range(archProjectImages)
              /\ Len(archProjectImages) > 1 =>
                     /\ Cardinality(NewCalls) = 1
                     /\ \A k \in NewCalls :
                            /\ calls'[k].src = NextOf(overlays'[o].src)
                            /\ calls'[k].origin = "next"
              /\ Len(archProjectImages) = 1 => NewCalls = {}
       /\ \A k \in DOMAIN calls :
              (Fails(k) /\ calls[k].origin = "next") =>
                  /\ calls'[k].warned
                  /\ cache' = cache
                  /\ overlays' = overlays /\ body' = body /\ listeners' = listeners
                  /\ NewCalls = {}]_vars

\* the overlay for the last item is open and the preload of the first
\* item, started with it, has failed and been logged
NextPreloadFailedLogged ==
    \E k \in DOMAIN calls :
        /\ calls[k].warned
        /\ calls[k].src = archProjectImages[1]
        /\ body # << >>
        /\ overlays[Head(body)].src = archProjectImages[Len(archProjectImages)]
        /\ Len(archProjectImages) > 1

\* a cleanup of overlay k set by closePreview is pending
Closing(ovs, b, ts, k) ==
    \E i \in DOMAIN ts : ts[i].fn = "cleanup" /\ ts[i].ov = k /\ ts[i].delay = CloseDelay

\* the lifecycle state of overlay k
Phase(ovs, b, ts, k) ==
    IF k \notin OverlaysOf(b) THEN "removed"
    ELSE IF ovs[k].content = "failed" THEN "error"
    ELSE IF "active" \in ovs[k].classes THEN "active"
    ELSE IF Closing(ovs, b, ts, k) THEN "closing"
    ELSE "loading"

LifecyclePaths ==
    {<<"loading", "active">>, <<"active", "closing">>, <<"closing", "removed">>,
     <<"loading", "error">>, <<"error", "removed">>}

\* the number of cleanups closePreview has set for overlay k and that are pending
Closings(ts, k) ==
    Cardinality({i \in DOMAIN ts :
                    ts[i].fn = "cleanup" /\ ts[i].ov = k /\ ts[i].delay = CloseDelay})

\* C14: an overlay changes state only along loading -> active -> closing ->
\* removed or loading -> error -> removed, under any order of load and
\* error events, key and click input and timers: a closing overlay does
\* not become active again and closePreview runs only on an active
\* overlay.  (The teardown of the open overlay by a later showPreview is
\* the entry of that later overlay and is not counted.)
LifecycleOnlyPaths ==
    [][\A k \in DOMAIN overlays :
          LET from == Phase(overlays, body, timers, k)
              to == Phase(overlays', body', timers', k)
          IN  NewOverlays = {} =>
                  /\ from # to => <<from, to>> \in LifecyclePaths
                  /\ Closings(timers', k) > Closings(timers, k) => from = "active"]_vars

\* overlay k has been replaced in the document by a later overlay
Superseded(k) ==
    /\ k \in DOMAIN overlays
    /\ \E m \in OverlaysOf(body) : m > k

\* the step runs a callback that overlay k started: the load or error
\* event of its content, or one of its timers
StaleCallback(k) ==
    \/ overlays[k].content = "pending" /\ overlays'[k].content # "pending"
    \/ \E i \in DOMAIN timers : Fires(i) /\ timers[i].ov = k

\* C15: a callback of an overlay that a newer overlay has superseded (the
\* load or error event of its content, its 300 ms or 2000 ms timers) leaves
\* the newer overlay in the document, with its state and its item as they
\* were, and opens no other overlay.
StaleCallbacksHarmless ==
    [][\A k \in DOMAIN overlays :
          (Superseded(k) /\ StaleCallback(k)) =>
              /\ body' = body
              /\ NewOverlays = {}
              /\ \A m \in OverlaysOf(body) : overlays'[m] = overlays[m]]_vars

\* the step delivers the load event of the element of call k
Completes(k) == calls[k].event = "none" /\ calls'[k].event = "load"

\* C16 as stated: an identifier that is in the cache stays there and the
\* handle stored for it never changes.
CacheEntriesNeverChange ==
    [][\A id \in DOMAIN cache : id \in DOMAIN cache' /\ cache'[id] = cache[id]]_vars

\* C16, amended: an identifier that is in the cache stays there; the cache
\* changes only when a load completes, and the handle stored for an
\* identifier changes only to the handle of another load of that same
\* identifier completing in that step.
CacheEntriesKept ==
    [][/\ \A id \in DOMAIN cache :
              /\ id \in DOMAIN cache'
              /\ cache'[id] # cache[id] =>
                     \E k \in DOMAIN calls :
                         /\ Completes(k) /\ calls[k].load
                         /\ calls[k].src = id /\ cache'[id] = k
       /\ (\A k \in DOMAIN calls : ~Completes(k)) => cache' = cache]_vars

\* two loads of one identifier have completed and the cache holds the
\* handle of the one that completed last, the earlier call
HandleReplaced ==
    \E k1, k2 \in DOMAIN calls :
        /\ k1 < k2
        /\ calls[k1].src = calls[k2].src
        /\ calls[k1].status = "resolved" /\ calls[k1].handle = k1
        /\ calls[k2].status = "resolved" /\ calls[k2].handle = k2
        /\ cache[calls[k1].src] = k1
        /\ Cardinality(DOMAIN cache) > 1

\* C17: a preload call for an identifier that is not in the cache starts
\* its own load, whether or not another load of that identifier is in
\* flight; a call that loads stays pending until the event of its own
\* element arrives and settles by that event alone, resolved with its own
\* handle on load and rejected on error; the completion of another load of
\* the same identifier, which caches it, settles no other call.
NoInFlightDeduplication ==
    [][/\ \A k \in NewCalls :
              calls'[k].src \notin DOMAIN cache' =>
                  /\ calls'[k].load
                  /\ calls'[k].status = "pending"
                  /\ calls'[k].event = "none"
       /\ \A k \in DOMAIN calls :
              (calls[k].load /\ calls'[k].status # calls[k].status) =>
                  /\ calls[k].status = "pending" /\ calls[k].event = "none"
                  /\ \/ /\ calls'[k].event = "load"
                        /\ calls'[k].status = "resolved"
                        /\ calls'[k].handle = k
                     \/ /\ calls'[k].event = "error"
                        /\ calls'[k].status = "rejected"
       /\ \A k \in DOMAIN calls :
              (calls[k].load /\ calls'[k].event = calls[k].event) =>
                  calls'[k].status = calls[k].status]_vars

\* of two loads of one identifier started before either completed, one
\* has completed and cached the identifier while the other is in flight
SecondLoadInFlight ==
    \E k1, k2 \in DOMAIN calls :
        /\ k1 # k2
        /\ calls[k1].src = calls[k2].src
        /\ calls[k1].load /\ calls[k1].status = "resolved"
        /\ calls[k2].load /\ calls[k2].status = "pending"
        /\ calls[k1].src \in DOMAIN cache

Origins == {"visible", "remaining", "next"}

\* C18: when the load of a preload call fails, the call rejects with the
\* error that names its identifier, the cache stays as it was and no
\* preload of that identifier is started by the failure; this holds for
\* the calls of both batches of initializeProjectGallery and for the
\* next-item preload of showProjectImages, whose failure is logged.
FailureNotRetried ==
    [][\A k \in DOMAIN calls :
          Fails(k) =>
              /\ calls[k].origin \in Origins
              /\ calls'[k].status = "rejected"
              /\ calls'[k].error.kind # "none"
              /\ calls'[k].error.src = calls[k].src
              /\ cache' = cache
              /\ \A j \in NewCalls : calls'[j].src # calls[k].src
              /\ calls'[k].warned <=> calls[k].origin = "next"]_vars

\* a load of each origin has failed, the remaining batch having been
\* started although a load of the visible batch failed
FailedFromEveryOrigin ==
    \A o \in Origins :
        \E k \in DOMAIN calls :
            /\ calls[k].origin = o
            /\ calls[k].event = "error"
            /\ calls[k].status = "rejected"
            /\ calls[k].src \notin DOMAIN cache

OtherKeys == Keys \ {"Escape", "ArrowLeft", "ArrowRight"}

\* the overlay in the document has room for one more timer
Clickable == body # << >> /\ Len(timers) < MaxTimers

\* C19: in every reachable state a click on a descendant of the overlay
\* changes nothing (no close, no timer, the overlay's classes and the
\* listeners as they were), a key other than Escape, ArrowLeft and
\* ArrowRight changes nothing either, and a click on the backdrop itself
\* starts the close: the 300 ms cleanup of that overlay is set and the
\* overlay is not active.
OnlyBackdropCloses ==
    /\ ~ENABLED (Click("child") /\ vars' # vars)
    /\ \A key \in OtherKeys : ~ENABLED (KeyDown(key) /\ vars' # vars)
    /\ Clickable =>
           /\ ENABLED Click("overlay")
           /\ ~ENABLED (Click("overlay") /\
                        ~(/\ Len(timers') = Len(timers) + 1
                          /\ timers'[Len(timers')] =
                                 CleanupTimer(Head(body), CloseDelay, FALSE)
                          /\ "active" \notin overlays'[Head(body)].classes
                          /\ listeners' = listeners /\ body' = body))

\* an active overlay with both listeners and no timer pending, the state
\* in which a click on its content or another key must do nothing
ActiveAndIdle ==
    /\ Clickable
    /\ timers = << >>
    /\ "active" \in overlays[Head(body)].classes
    /\ EscHandler(Head(body)) \in Range(listeners)
    /\ KeyNavHandler(Head(body)) \in Range(listeners)
    /\ ENABLED Click("child")
    /\ \A key \in OtherKeys : ENABLED KeyDown(key)

\* the item a press of key on overlay k selects
Selected(k, key) ==
    Neighbour(IndexOf(archProjectImages, overlays[k].src), Direction(key))

\* C20: every pending opening that an arrow key set is the opening of an
\* immediate neighbour, wrapping, of the item of the overlay that handled
\* the press, however many presses that overlay handled; the openings run
\* in the order of the presses, each leaves its overlay as the only one in
\* the document, so that after the last of them the document holds one
\* overlay that shows the neighbour the last press selected, and the
\* cleanups of the replaced overlay that run afterwards change nothing.
PressesOpenNeighbours ==
    /\ [](\A i \in DOMAIN timers :
             timers[i].fn = "show" =>
                 timers[i].index = Selected(timers[i].ov, timers[i].key))
    /\ [][\A i \in DOMAIN timers :
             /\ (Fires(i) /\ timers[i].fn = "show") =>
                    LET n == Len(overlays) + 1
                    IN  /\ \A j \in 1..(i - 1) : timers[j].fn # "show"
                        /\ NewOverlays = {n}
                        /\ body' = <<n>>
                        /\ overlays'[n].src =
                               At(archProjectImages, Selected(timers[i].ov, timers[i].key))
             /\ (Fires(i) /\ timers[i].fn = "cleanup"
                          /\ timers[i].ov \notin OverlaysOf(body)) =>
                    body' = body /\ overlays' = overlays /\ listeners' = listeners]_vars

\* the overlay of the first item handled ArrowRight and then ArrowLeft
\* within its closing window; all four timers have run and the document
\* holds the overlay of the last item, the left neighbour
TwoPressesSettled ==
    /\ Len(overlays) = MaxOverlays + 1
    /\ timers = << >>
    /\ body = <<Len(overlays)>>
    /\ overlays[1].src = At(archProjectImages, 0)
    /\ overlays[Len(overlays) - 1].src = At(archProjectImages, 1)
    /\ overlays[Len(overlays)].src = At(archProjectImages, Len(archProjectImages) - 1)

====
